---- MODULE Spec2Model ----
(***************************************************************************)
(* docify: adds docstrings to Python type stubs using reflection.          *)
(*                                                                         *)
(* The model follows src/docify.py: the condition and reachability         *)
(* metadata providers, the Transformer that inserts documentation          *)
(* statements, and run(), which walks the queue of stub files and commits  *)
(* each rewritten stub.                                                    *)
(*                                                                         *)
(* Conventions.  An optional Python value is a sequence of length at most  *)
(* one: None is << >> and a present value v is << v >>.  Text is a         *)
(* sequence of characters.  A parsed stub is an arena: a sequence of nodes *)
(* in document (pre-)order, every node naming its parent.                  *)
(***************************************************************************)
EXTENDS Integers, Sequences, FiniteSets, TLC

VARIABLES
    version_info,   \* sys.version_info of the interpreter running docify
    platform,       \* sys.platform of that interpreter
    cnode,          \* ConditionProvider: the expression being visited
    cmeta,          \* ConditionProvider: its metadata, by sub-expression
    queue,          \* run(): the queue of stub files
    modules,        \* what importlib.import_module gives for each file
    fs,             \* the stub files on disk
    tmp,            \* the temporary file beside each stub, if any
    out,            \* the files of the output directory
    in_place,       \* run(in_place=...)
    if_needed,      \* run(if_needed=...)
    run_no,         \* how many times run() was started
    prev,           \* the files and the outcome the previous run() left
    qi,             \* run(): position in the queue
    pc,             \* run(): the statement about to execute
    exc,            \* the exception run() has raised, "none" while it runs
    mod,            \* run(): the imported module of the current file
    tree,           \* the current file's syntax tree, as rewritten so far
    marks,          \* UnreachableProvider metadata of the current tree
    pos,            \* the visitor's position in the current tree
    lookups,        \* nodes of the current tree passed to get_obj
    raised_at,      \* nodes of the current tree whose get_qualname raised
    inserted,       \* <<file, node>>: documentation inserted by this run()
    call,           \* a function called on its own: its name and arguments
    result          \* what that call returned, None until it has

condvars == <<cnode, cmeta>>
sysvars  == <<version_info, platform>>
runvars  == <<queue, modules, fs, tmp, out, in_place, if_needed, run_no, prev,
              qi, pc, exc, mod, tree, marks, pos, lookups, raised_at, inserted>>
fnvars   == <<call, result>>
vars     == <<sysvars, condvars, runvars, fnvars>>

(***************************************************************************)
(* Optional values, sequences.                                             *)
(***************************************************************************)
None == << >>

Some(v) == << v >>

Min(a, b) == IF a <= b THEN a ELSE b

Range(s) == {s[i] : i \in 1..Len(s)}

(***************************************************************************)
(* Characters.  Text is a sequence over these.                             *)
(***************************************************************************)
DQ  == "\""      \* the double quote
SQ  == "'"       \* the single quote
BS  == "\\"      \* the backslash
NL  == "\n"      \* the newline
SP  == " "       \* the space
TAB == "\t"      \* the tab
BEL == "\\a"     \* the bell character, U+0007: a control character

Whitespace == {SP, NL, TAB}

\* str.isprintable for one character: control characters and every
\* whitespace character other than the space are not printable.
IsPrintableChar(c) == c \notin {BEL, NL, TAB}

(***************************************************************************)
(* Text helpers: what the str methods used by docify do.                   *)
(***************************************************************************)
\* s[i:] for a 0-based i, as Python slices.
Drop(s, n) == SubSeq(s, n + 1, Len(s))

Take(s, n) == SubSeq(s, 1, Min(n, Len(s)))

StartsWith(s, p) == Len(s) >= Len(p) /\ SubSeq(s, 1, Len(p)) = p

Contains(s, c) == \E i \in 1..Len(s) : s[i] = c

RECURSIVE Concat(_)
\* "".join(parts)
Concat(parts) ==
    IF parts = << >> THEN << >> ELSE Head(parts) \o Concat(Tail(parts))

RECURSIVE StrReplace(_, _, _)
\* str.replace(old, new): the occurrences of old, left to right, not
\* overlapping.
StrReplace(s, old, new) ==
    IF s = << >> THEN << >>
    ELSE IF StartsWith(s, old) THEN new \o StrReplace(Drop(s, Len(old)), old, new)
    ELSE <<Head(s)>> \o StrReplace(Tail(s), old, new)

RECURSIVE Split(_)
\* str.split("\n"): the lines, without their newlines; one more than the
\* number of newlines.
Split(s) ==
    IF ~Contains(s, NL) THEN <<s>>
    ELSE LET i == CHOOSE k \in 1..Len(s) :
                      s[k] = NL /\ \A j \in 1..(k - 1) : s[j] # NL
         IN  <<SubSeq(s, 1, i - 1)>> \o Split(Drop(s, i))

RECURSIVE SplitLinesKeep(_)
\* str.splitlines(True): the lines with their newlines; no empty last line.
SplitLinesKeep(s) ==
    IF s = << >> THEN << >>
    ELSE IF ~Contains(s, NL) THEN <<s>>
    ELSE LET i == CHOOSE k \in 1..Len(s) :
                      s[k] = NL /\ \A j \in 1..(k - 1) : s[j] # NL
         IN  <<SubSeq(s, 1, i)>> \o SplitLinesKeep(Drop(s, i))

RECURSIVE JoinLines(_)
\* "\n".join(lines)
JoinLines(lines) ==
    IF lines = << >> THEN << >>
    ELSE IF Len(lines) = 1 THEN lines[1]
    ELSE lines[1] \o <<NL>> \o JoinLines(Tail(lines))

RECURSIVE LStrip(_)
\* str.lstrip()
LStrip(s) ==
    IF s # << >> /\ Head(s) \in Whitespace THEN LStrip(Tail(s)) ELSE s

\* str.strip() is empty: the line holds whitespace only.
IsBlank(s) == \A i \in 1..Len(s) : s[i] \in Whitespace

\* str.isprintable() of the text with its newlines removed.
IsPrintable(s) == \A i \in 1..Len(s) : s[i] = NL \/ IsPrintableChar(s[i])

RECURSIVE DropEmptyTail(_)
DropEmptyTail(lines) ==
    IF lines # << >> /\ lines[Len(lines)] = << >>
    THEN DropEmptyTail(SubSeq(lines, 1, Len(lines) - 1))
    ELSE lines

RECURSIVE DropEmptyHead(_)
DropEmptyHead(lines) ==
    IF lines # << >> /\ Head(lines) = << >> THEN DropEmptyHead(Tail(lines))
    ELSE lines

\* inspect.cleandoc: the first line loses its leading whitespace, the other
\* lines lose the indentation they share, and empty lines at either end are
\* dropped.  (No text of the model holds a tab, so expandtabs changes
\* nothing.)
cleandoc(doc) ==
    LET lines   == Split(doc)
        rest    == {i \in 2..Len(lines) : LStrip(lines[i]) # << >>}
        indent(i) == Len(lines[i]) - Len(LStrip(lines[i]))
        margin  == IF rest = {} THEN -1
                   ELSE CHOOSE g \in {indent(i) : i \in rest} :
                            \A i \in rest : g <= indent(i)
        cleaned == [i \in 1..Len(lines) |->
                       IF i = 1 THEN LStrip(lines[1])
                       ELSE IF margin >= 0 THEN Drop(lines[i], margin)
                       ELSE lines[i]]
    IN  JoinLines(DropEmptyHead(DropEmptyTail(cleaned)))

\* textwrap.indent(text, prefix): prefix before every line that holds more
\* than whitespace.
TextwrapIndent(text, prefix) ==
    LET lines == SplitLinesKeep(text)
    IN  Concat([i \in 1..Len(lines) |->
                   IF IsBlank(lines[i]) THEN lines[i] ELSE prefix \o lines[i]])

\* repr() of one character inside quotes q.
ReprChar(c, q) ==
    IF c = BS THEN <<BS, BS>>
    ELSE IF c = q THEN <<BS, q>>
    ELSE IF c = NL THEN <<BS, "n">>
    ELSE IF c = TAB THEN <<BS, "t">>
    ELSE IF c = BEL THEN <<BS, "x", "0", "7">>
    ELSE <<c>>

\* repr() of a str: single quotes, unless the text holds a single quote and
\* no double quote.
Repr(doc) ==
    LET q == IF Contains(doc, SQ) /\ ~Contains(doc, DQ) THEN DQ ELSE SQ
    IN  <<q>> \o Concat([i \in 1..Len(doc) |-> ReprChar(doc[i], q)]) \o <<q>>

\* docquote_str (src/docify.py:138): the text as a string literal.
docquote_str(doc, indent) ==
    IF ~IsPrintable(doc) THEN Repr(doc)
    ELSE
    LET raw == Contains(doc, BS)
        d1  == IF Contains(doc, NL)
               THEN <<NL>> \o TextwrapIndent(doc, indent) \o <<NL>> \o indent
               ELSE IF doc # << >> /\ doc[Len(doc)] = DQ
               THEN IF raw THEN doc \o <<SP>>
                    ELSE SubSeq(doc, 1, Len(doc) - 1) \o <<BS, DQ>>
               ELSE doc
        d2  == IF raw THEN StrReplace(d1, <<DQ, DQ, DQ>>, <<SQ, SQ, SQ>>)
               ELSE StrReplace(d1, <<DQ, DQ, DQ>>, <<BS, DQ, BS, DQ, BS, DQ>>)
    IN  (IF raw THEN <<"r">> ELSE << >>) \o <<DQ, DQ, DQ>> \o d2 \o <<DQ, DQ, DQ>>

RECURSIVE CloseAt(_, _, _)
\* Where the closing delimiter of a string literal starts, reading s from
\* position i: a backslash takes the next character with it (in a raw
\* literal too); 0 when the literal is not closed.
CloseAt(s, i, delim) ==
    IF i > Len(s) THEN 0
    ELSE IF s[i] = BS THEN CloseAt(s, i + 2, delim)
    ELSE IF StartsWith(Drop(s, i - 1), delim) THEN i
    ELSE CloseAt(s, i + 1, delim)

\* The tokenizer of cst.parse_module on a documentation statement: the text
\* is one whole string literal (an optional r prefix, a delimiter, the first
\* closing delimiter ending the text; no newline in a single-quoted one).
StringTokenOK(lit) ==
    LET rest  == IF lit # << >> /\ lit[1] = "r" THEN Tail(lit) ELSE lit
        delim == IF StartsWith(rest, <<DQ, DQ, DQ>>) THEN <<DQ, DQ, DQ>>
                 ELSE IF StartsWith(rest, <<SQ, SQ, SQ>>) THEN <<SQ, SQ, SQ>>
                 ELSE Take(rest, 1)
        close == CloseAt(rest, Len(delim) + 1, delim)
    IN  /\ rest # << >>
        /\ rest[1] \in {DQ, SQ}
        /\ close # 0
        /\ close + Len(delim) - 1 = Len(rest)
        /\ Len(delim) = 1 => ~Contains(rest, NL)

(***************************************************************************)
(* Expressions of a conditional's test, as libcst nodes.                   *)
(***************************************************************************)
Attribute(value, attr) == [type |-> "Attribute", value |-> value, attr |-> attr]

Name(name) == [type |-> "Name", name |-> name]

\* An integer literal; value is the number its decimal text denotes.
Integer(n) == [type |-> "Integer", value |-> n]

Tuple(elements) == [type |-> "Tuple", elements |-> elements]

\* A string literal: its quote, its characters, its quote.
SimpleString(chars) == [type |-> "SimpleString", text |-> <<SQ, chars, SQ>>]

ComparisonTarget(operator, comparator) ==
    [operator |-> operator, comparator |-> comparator]

Comparison(left, comparisons) ==
    [type |-> "Comparison", left |-> left, comparisons |-> comparisons]

UnaryOperation(operator, expression) ==
    [type |-> "UnaryOperation", operator |-> operator, expression |-> expression]

BooleanOperation(left, operator, right) ==
    [type |-> "BooleanOperation", left |-> left, operator |-> operator,
     right |-> right]

CompOps == {"GreaterThanEqual", "GreaterThan", "Equal", "NotEqual",
            "LessThan", "LessThanEqual"}

\* get_version (src/docify.py:166): the tuple of ints of a tuple literal.
get_version(elements) == [i \in 1..Len(elements) |-> elements[i].value]

\* Python's comparison of two tuples: the first index at which they differ
\* decides; with none, the lengths do.
FirstDiff(a, b) ==
    LET n == Min(Len(a), Len(b))
        D == {i \in 1..n : a[i] # b[i]}
    IN  IF D = {} THEN 0 ELSE CHOOSE i \in D : \A j \in D : i <= j

TupleEqTruncated(a, b) == FirstDiff(a, b) = 0

TupleEq(a, b) == FirstDiff(a, b) = 0 /\ Len(a) = Len(b)

TupleLtTruncated(a, b) ==
    LET i == FirstDiff(a, b) IN i # 0 /\ a[i] < b[i]

TupleLt(a, b) ==
    LET i == FirstDiff(a, b)
    IN  IF i = 0 THEN Len(a) < Len(b) ELSE a[i] < b[i]

PyCompareTruncated(op, a, b) ==
    CASE op = "GreaterThanEqual" -> ~TupleLtTruncated(a, b)
      [] op = "GreaterThan"      -> TupleLtTruncated(b, a)
      [] op = "Equal"            -> TupleEqTruncated(a, b)
      [] op = "NotEqual"         -> ~TupleEqTruncated(a, b)
      [] op = "LessThan"         -> TupleLtTruncated(a, b)
      [] op = "LessThanEqual"    -> ~TupleLtTruncated(b, a)

\* sys.version_info <op> get_version(els), lines 205 to 245.
PyCompare(op, a, b) ==
    CASE op = "GreaterThanEqual" -> ~TupleLt(a, b)
      [] op = "GreaterThan"      -> TupleLt(b, a)
      [] op = "Equal"            -> TupleEq(a, b)
      [] op = "NotEqual"         -> ~TupleEq(a, b)
      [] op = "LessThan"         -> TupleLt(a, b)
      [] op = "LessThanEqual"    -> ~TupleLt(b, a)

\* A Python str object.
PyStr(chars) == [pytype |-> "str", chars |-> chars]

\* a == b between Python objects: a str equals only a str with its
\* characters; a syntax-tree node equals only itself.
PyEq(a, b) == a = b

\* The first matcher of leave_Comparison, lines 172 to 196.
MatchesVersionComparison(node) ==
    /\ node.left = Attribute(Name("sys"), "version_info")
    /\ Len(node.comparisons) = 1
    /\ node.comparisons[1].operator \in CompOps
    /\ node.comparisons[1].comparator.type = "Tuple"
    /\ LET els == node.comparisons[1].comparator.elements
       IN  /\ Len(els) \in 1..3
           /\ \A i \in 1..Len(els) : els[i].type = "Integer"

\* The third matcher of leave_Comparison, lines 254 to 268.
MatchesPlatformComparison(node) ==
    /\ node.left = Attribute(Name("sys"), "platform")
    /\ Len(node.comparisons) = 1
    /\ node.comparisons[1].operator \in {"Equal", "NotEqual"}
    /\ node.comparisons[1].comparator.type = "SimpleString"

\* sys.platform == val and sys.platform != val, lines 275 and 279: val is
\* what MatchIfTrue hands the lambda, the comparator node.
PlatformCompare(op, sys_platform, val) ==
    IF op = "Equal" THEN PyEq(PyStr(sys_platform), val)
    ELSE ~PyEq(PyStr(sys_platform), val)

\* ConditionProvider.leave_Comparison: the metadata set for the node, None
\* when none is set.
leave_Comparison(node, sys_version_info, sys_platform) ==
    IF MatchesVersionComparison(node)
    THEN Some(PyCompare(node.comparisons[1].operator, sys_version_info,
                        get_version(node.comparisons[1].comparator.elements)))
    ELSE IF MatchesPlatformComparison(node)
    THEN Some(PlatformCompare(node.comparisons[1].operator, sys_platform,
                              node.comparisons[1].comparator))
    ELSE None

\* ConditionProvider.leave_UnaryOperation; val is the operand's metadata.
leave_UnaryOperation(node, val) ==
    IF val = None THEN None
    ELSE IF node.operator = "Not" THEN Some(~val[1])
    ELSE None

BooleanOperationShortCircuit(node, left, right) ==
    IF left = None THEN (IF right = None THEN None
                         ELSE IF node.operator = "And" /\ ~right[1] THEN right
                         ELSE IF node.operator = "Or" /\ right[1] THEN right
                         ELSE None)
    ELSE IF node.operator = "And" /\ ~left[1] THEN left
    ELSE IF node.operator = "Or" /\ left[1] THEN left
    ELSE right

\* ConditionProvider.leave_BooleanOperation; left and right are the
\* operands' metadata.
leave_BooleanOperation(node, left, right) ==
    IF left = None THEN None
    ELSE IF right = None THEN None
    ELSE IF node.operator = "And" THEN Some(left[1] /\ right[1])
    ELSE IF node.operator = "Or" THEN Some(left[1] \/ right[1])
    ELSE None

RECURSIVE ConditionMetadata(_, _, _)
\* The metadata ConditionProvider holds for an expression once its visit is
\* over: the leave_ handlers, applied bottom-up.
ConditionMetadata(node, sys_version_info, sys_platform) ==
    CASE node.type = "Comparison" ->
            leave_Comparison(node, sys_version_info, sys_platform)
      [] node.type = "UnaryOperation" ->
            leave_UnaryOperation(node,
                ConditionMetadata(node.expression, sys_version_info, sys_platform))
      [] node.type = "BooleanOperation" ->
            leave_BooleanOperation(node,
                ConditionMetadata(node.left, sys_version_info, sys_platform),
                ConditionMetadata(node.right, sys_version_info, sys_platform))
      [] OTHER -> None

(***************************************************************************)
(* Live objects: what reflection on the imported module gives.             *)
(***************************************************************************)
PyNone == [pytype |-> "NoneType"]

PyInt(n) == [pytype |-> "int", value |-> n]

\* A property object: a data descriptor.
PyProperty == [pytype |-> "property"]

\* A str whose characters are the text t.
PyText(t) == [pytype |-> "str", text |-> t]

\* bool(v)
Truthy(v) ==
    CASE v.pytype = "NoneType" -> FALSE
      [] v.pytype = "str"      -> v.text # << >>
      [] v.pytype = "int"      -> v.value # 0
      [] OTHER                 -> TRUE

\* inspect.isdatadescriptor of a documentation value.
IsDataDescriptorValue(v) == v.pytype = "property"

\* object.__init__.__doc__ and object.__new__.__doc__
ObjectInitDoc == PyText(<<"i">>)

ObjectNewDoc == PyText(<<"n">>)

\* A live object, by what docify asks of it:
\*   access    getattr to reach it: "ok", or "raises" (not AttributeError)
\*   routine   inspect.isroutine
\*   datadesc  inspect.isdatadescriptor
\*   class     inspect.isclass
\*   isobject  the object is the type object
\*   doc       getattr_safe(obj, "__doc__", None)
\*   raw       the owner's __dict__.get(name): None, or the raw entry's
\*             [datadesc, doc]
\*   typedoc   type(obj).__dict__.get("__doc__"): "None", "datadesc", "str"
\*   srcfile   inspect.getsourcefile(obj): "file", "none", "TypeError"
Obj(routine, datadesc, class, doc, raw, typedoc, srcfile) ==
    [access |-> "ok", routine |-> routine, datadesc |-> datadesc,
     class |-> class, isobject |-> FALSE, doc |-> doc, raw |-> raw,
     typedoc |-> typedoc, srcfile |-> srcfile]

Routine(doc, srcfile) == Obj(TRUE, FALSE, FALSE, doc, None, "str", srcfile)

Class(doc) == Obj(FALSE, FALSE, TRUE, doc, None, "str", "file")

RawEntry(datadesc, doc) == [datadesc |-> datadesc, doc |-> doc]

\* getattr_safe(o, "__doc__", None), src/docify.py:38
getattr_safe_doc(o) == o.doc

\* get_doc_class, src/docify.py:86
get_doc_class(obj) ==
    LET doc == getattr_safe_doc(obj)
    IN  IF IsDataDescriptorValue(doc) THEN PyNone ELSE doc

\* get_doc_def, were the instance's own text tried before the owner's raw
\* entry.
GetDocDefInstanceFirst(scope_obj, obj, name) ==
    IF obj.routine \/ obj.datadesc
    THEN LET doc == getattr_safe_doc(obj)
         IN  IF scope_obj.class /\ ~scope_obj.isobject
                /\ (\/ name = "__init__" /\ doc = ObjectInitDoc
                    \/ name = "__new__" /\ doc = ObjectNewDoc)
             THEN PyNone
             ELSE doc
    ELSE IF ~obj.class /\ obj.typedoc \in {"None", "datadesc"}
            /\ Truthy(getattr_safe_doc(obj))
    THEN getattr_safe_doc(obj)
    ELSE IF obj.raw # None /\ obj.raw[1].datadesc /\ Truthy(obj.raw[1].doc)
    THEN obj.raw[1].doc
    ELSE PyNone

\* get_doc_def, src/docify.py:99
get_doc_def(scope_obj, obj, name) ==
    IF obj.routine \/ obj.datadesc
    THEN LET doc == getattr_safe_doc(obj)
         IN  IF scope_obj.class /\ ~scope_obj.isobject
                /\ (\/ name = "__init__" /\ doc = ObjectInitDoc
                    \/ name = "__new__" /\ doc = ObjectNewDoc)
             THEN PyNone
             ELSE doc
    ELSE IF obj.raw # None /\ obj.raw[1].datadesc /\ Truthy(obj.raw[1].doc)
    THEN obj.raw[1].doc
    ELSE IF ~obj.class /\ obj.typedoc \in {"None", "datadesc"}
            /\ Truthy(getattr_safe_doc(obj))
    THEN getattr_safe_doc(obj)
    ELSE PyNone

\* Transformer.check_if_needed, src/docify.py:368
check_if_needed(needed_only, obj) ==
    IF ~needed_only THEN TRUE ELSE obj.srcfile # "file"

(***************************************************************************)
(* Syntax trees.  A tree is a sequence of nodes in document order; node 1  *)
(* is the Module.  A node's fields:                                        *)
(*   type    "Module", "ClassDef", "FunctionDef", "If", "Else"             *)
(*   parent  the enclosing compound statement (0 for the Module)           *)
(*   slot    "body": a statement of the parent's body; "orelse": the       *)
(*           parent If's elif (an If) or else (an Else)                    *)
(*   name    the declaration's name                                        *)
(*   body    "IndentedBlock" or "SimpleStatementSuite"                     *)
(*   indent  IndentedBlock.indent (None: the module's default); for the    *)
(*           Module, its default_indent                                    *)
(*   doc     the string literals that are the first statements of the      *)
(*           body, in order; empty when the body starts otherwise          *)
(*   test    an If's test                                                  *)
(*   header, lead, footer  (Module) the number of header lines, of empty   *)
(*           lines leading the first statement after the docstring, and of *)
(*           footer lines                                                  *)
(***************************************************************************)
Node(type, parent, slot, name, body, indent, doc, test) ==
    [type |-> type, parent |-> parent, slot |-> slot, name |-> name,
     body |-> body, indent |-> indent, doc |-> doc, test |-> test,
     header |-> 0, lead |-> 0, footer |-> 0]

DefTypes == {"ClassDef", "FunctionDef"}

Nodes(t) == 1..Len(t)

Children(t, n) == {c \in Nodes(t) : t[c].parent = n}

RECURSIVE Subtree(_, _)
\* What a visitor started on node n visits: n and everything below it.
Subtree(t, n) ==
    {n} \cup UNION {Subtree(t, c) : c \in Children(t, n)}

\* node.orelse
OrElse(t, n) ==
    LET E == {c \in Children(t, n) : t[c].slot = "orelse"}
    IN  IF E = {} THEN None ELSE Some(CHOOSE c \in E : TRUE)

\* What node.body.visit(visitor) visits.
BodyNodes(t, n) ==
    UNION {Subtree(t, c) : c \in {c \in Children(t, n) : t[c].slot = "body"}}

\* mark_unreachable, were the visitor not to descend below the statements
\* of the body.
MarkBodyStatementsOnly(t, n) ==
    {n} \cup {c \in Children(t, n) : t[c].slot = "body"}

\* UnreachableProvider.mark_unreachable, src/docify.py:321: the nodes that
\* get the metadata.
mark_unreachable(t, n) == {n} \cup BodyNodes(t, n)

RECURSIVE LaterBranches(_, _)
\* The loop of visit_If, lines 337 to 345: the nodes marked when the test of
\* node n is true.
LaterBranches(t, n) ==
    LET e == OrElse(t, n)
    IN  IF e = None THEN {}
        ELSE IF t[e[1]].type = "If"
        THEN mark_unreachable(t, e[1]) \cup LaterBranches(t, e[1])
        ELSE mark_unreachable(t, e[1])

\* visit_If, were the loop of lines 337 to 345 to stop after one branch.
VisitIfNextBranchOnly(t, m, n, sys_version_info, sys_platform) ==
    LET cond == ConditionMetadata(t[n].test[1], sys_version_info, sys_platform)
        e    == OrElse(t, n)
    IN  IF n \in m \/ cond = None THEN m
        ELSE IF cond[1]
        THEN (IF e = None THEN m ELSE m \cup mark_unreachable(t, e[1]))
        ELSE m \cup mark_unreachable(t, n)

\* UnreachableProvider.visit_If, src/docify.py:325: the metadata after the
\* visit of the If node n, m being the metadata before it.
visit_If(t, m, n, sys_version_info, sys_platform) ==
    LET cond == ConditionMetadata(t[n].test[1], sys_version_info, sys_platform)
    IN  IF n \in m THEN m
        ELSE IF cond = None THEN m
        ELSE IF cond[1] THEN m \cup LaterBranches(t, n)
        ELSE m \cup mark_unreachable(t, n)

\* The If nodes from position p on, in the order the provider visits them.
NextIf(t, p) ==
    LET I == {n \in Nodes(t) : n >= p /\ t[n].type = "If"}
    IN  IF I = {} THEN 0 ELSE CHOOSE n \in I : \A k \in I : n <= k

\* The last node of the subtree of n.
LastOf(t, n) ==
    LET S == Subtree(t, n) IN CHOOSE k \in S : \A j \in S : j <= k

\* The declarations in the order their leave_ handlers run: a declaration
\* after everything inside it, siblings in document order.
LeavesBefore(t, a, b) ==
    \/ LastOf(t, a) < LastOf(t, b)
    \/ LastOf(t, a) = LastOf(t, b) /\ a > b

Defs(t) == {n \in Nodes(t) : t[n].type \in DefTypes}

\* The declaration left after the set done of declarations; 0 when all are.
NextLeave(t, done) ==
    LET R == Defs(t) \ done
    IN  IF R = {} THEN 0
        ELSE CHOOSE n \in R : \A k \in R \ {n} : LeavesBefore(t, n, k)

\* ScopeProvider: the node whose scope a declaration is defined in: the
\* nearest enclosing class or function, else the Module (the global scope).
RECURSIVE ScopeNode(_, _)
ScopeNode(t, n) ==
    LET p == t[n].parent
    IN  IF p = 0 THEN 1
        ELSE IF t[p].type \in DefTypes \cup {"Module"} THEN p
        ELSE ScopeNode(t, p)

RECURSIVE QualnameFrom(_, _, _)
QualnameFrom(t, scope, qualname) ==
    IF t[scope].type = "Module" THEN [raises |-> "none", qualname |-> qualname]
    ELSE IF t[scope].type = "ClassDef"
    THEN IF t[scope].name = "" THEN [raises |-> "ValueError", qualname |-> << >>]
         ELSE QualnameFrom(t, ScopeNode(t, scope), <<t[scope].name>> \o qualname)
    ELSE [raises |-> "TypeError", qualname |-> << >>]

\* get_qualname, src/docify.py:72, for the declaration n: the segments of
\* the dotted name (no identifier holds a dot, so the dotted string and its
\* split("."), line 64, are these segments), or the exception raised.
get_qualname(t, n) == QualnameFrom(t, ScopeNode(t, n), <<t[n].name>>)

\* The body's first statement is a string literal: the matcher of lines 391
\* to 410, and of lines 482 to 490 for the Module.
HasDocstring(node) == node.doc # << >>

\* The indentation of a node's own block.
BlockIndent(t, n) ==
    IF t[n].body = "SimpleStatementSuite" THEN t[1].indent[1]
    ELSE IF t[n].indent = None THEN t[1].indent[1]
    ELSE t[n].indent[1]

RECURSIVE IndentAbove(_, _)
\* The loop of lines 445 to 454 above the node n: the parent chain, every
\* block on it adding its indentation on the right.
IndentAbove(t, n) ==
    LET p == t[n].parent
    IN  IF p = 0 \/ t[p].type = "Module" THEN << >>
        ELSE IF t[n].slot = "body" THEN BlockIndent(t, p) \o IndentAbove(t, p)
        ELSE IndentAbove(t, p)

\* The indent of lines 442 to 454 for the declaration n and its text doc.
DocIndent(t, n, doc) ==
    IF Contains(doc, NL) THEN BlockIndent(t, n) \o IndentAbove(t, n) ELSE << >>

(***************************************************************************)
(* The imported modules.  Every importable module of the model has the     *)
(* same members, one for each way reflection can answer; the stubs differ  *)
(* in which of them they declare.                                          *)
(***************************************************************************)
Members ==
    (<<"f">> :> Routine(PyText(<<"a">>), "none")) @@
    (<<"g">> :> Routine(PyNone, "none")) @@
    (<<"h">> :> Routine(PyInt(7), "none")) @@
    (<<"k">> :> Routine(PyText(<<SP, "a", NL, SP, SP, "b", NL>>), "file")) @@
    (<<"e">> :> Routine(PyText(<<"a", BS>>), "none")) @@
    (<<"q">> :> Routine(PyText(<<"a", DQ>>), "TypeError")) @@
    (<<"w">> :> Routine(PyText(<<SP>>), "none")) @@
    (<<"b">> :> Routine(PyText(<<BEL>>), "none")) @@
    (<<"p">> :> [Routine(PyText(<<"a">>), "none") EXCEPT !.access = "raises"]) @@
    (<<"v">> :> Obj(FALSE, FALSE, FALSE, PyText(<<"v">>), None, "None", "TypeError")) @@
    (<<"C">> :> Class(PyText(<<"c">>))) @@
    (<<"C", "m">> :> Routine(PyText(<<"m", NL, "n">>), "none")) @@
    (<<"C", "__init__">> :> Routine(ObjectInitDoc, "none")) @@
    (<<"C", "a">> :> Obj(FALSE, FALSE, FALSE, PyInt(0),
                         Some(RawEntry(TRUE, PyText(<<"p">>))), "str", "TypeError")) @@
    (<<"D">> :> Class(PyProperty)) @@
    (<<"E">> :> Class(PyInt(7)))

\* The module object: its __doc__ and whether its source file is found.
ModuleObj(doc, srcfile) == Obj(FALSE, FALSE, FALSE, doc, None, "str", srcfile)

\* What importlib.import_module does for a file: gives the module, or
\* raises ImportError or another exception.
Imported(doc, srcfile) == [import |-> "ok", obj |-> ModuleObj(doc, srcfile)]

NotImported(how) == [import |-> how, obj |-> ModuleObj(PyNone, "none")]

\* get_obj, src/docify.py:60: the owner and the object a dotted name
\* reaches from the module, None when a getattr on the way fails.
get_obj(module, qualname) ==
    IF \A k \in 1..Len(qualname) :
           /\ SubSeq(qualname, 1, k) \in DOMAIN Members
           /\ Members[SubSeq(qualname, 1, k)].access = "ok"
    THEN Some(<<IF Len(qualname) = 1 THEN module.obj
                ELSE Members[SubSeq(qualname, 1, Len(qualname) - 1)],
                Members[qualname]>>)
    ELSE None

(***************************************************************************)
(* The Transformer.                                                        *)
(***************************************************************************)
\* What a leave_ handler did: the exception it raised ("none": it
\* returned), whether it called get_obj, the node it returned, and whether
\* it inserted a documentation statement.
Outcome(raises, lookup, node, ins) ==
    [raises |-> raises, lookup |-> lookup, node |-> node, inserted |-> ins]

\* Lines 431 to 436: a documentation value that is not a str is dropped,
\* a str is cleaned.
CleanedDoc(doc) ==
    IF doc.pytype = "NoneType" THEN PyNone
    ELSE IF doc.pytype # "str" THEN PyNone
    ELSE PyText(cleandoc(doc.text))

\* Lines 461 to 470: the declaration with the documentation statement as
\* the first statement of its body.
WithDocstring(node, literal) ==
    IF node.body = "SimpleStatementSuite"
    THEN [node EXCEPT !.body = "IndentedBlock", !.indent = None,
                      !.doc = <<literal>> \o @]
    ELSE [node EXCEPT !.doc = <<literal>> \o @]

\* Lines 414 to 470 of leave_ClassFunctionDef: the object is looked up,
\* its documentation selected, quoted and inserted.
LookupAndInsert(t, module, needed_only, n, qualname) ==
    LET r == get_obj(module, qualname)
    IN
    IF r = None THEN Outcome("none", TRUE, t[n], FALSE)
    ELSE IF ~check_if_needed(needed_only, r[1][2])
    THEN Outcome("none", TRUE, t[n], FALSE)
    ELSE
    LET found == IF t[n].type = "FunctionDef"
                 THEN get_doc_def(r[1][1], r[1][2], t[n].name)
                 ELSE get_doc_class(r[1][2])
        doc   == CleanedDoc(found)
    IN
    IF ~Truthy(doc) THEN Outcome("none", TRUE, t[n], FALSE)
    ELSE Outcome("none", TRUE,
                 WithDocstring(t[n],
                     docquote_str(doc.text, DocIndent(t, n, doc.text))),
                 TRUE)

\* leave_ClassFunctionDef, were it not to look for a docstring the
\* declaration already has.
LeaveDefIgnoringDocstring(t, m, module, needed_only, n) ==
    IF n \in m THEN Outcome("none", FALSE, t[n], FALSE)
    ELSE
    LET qn == get_qualname(t, n)
    IN
    IF qn.raises # "none" THEN Outcome(qn.raises, FALSE, t[n], FALSE)
    ELSE LookupAndInsert(t, module, needed_only, n, qn.qualname)

\* Transformer.leave_ClassFunctionDef, src/docify.py:376, for the
\* declaration n of the tree t with the unreachable metadata m.  (The
\* ScopeProvider gives every declaration a scope, so line 382 never
\* returns.)
leave_ClassFunctionDef(t, m, module, needed_only, n) ==
    IF n \in m THEN Outcome("none", FALSE, t[n], FALSE)
    ELSE
    LET qn == get_qualname(t, n)
    IN
    IF qn.raises # "none" THEN Outcome(qn.raises, FALSE, t[n], FALSE)
    ELSE IF HasDocstring(t[n]) THEN Outcome("none", FALSE, t[n], FALSE)
    ELSE LookupAndInsert(t, module, needed_only, n, qn.qualname)

\* Transformer.leave_Module, src/docify.py:481.
leave_Module(t, module, needed_only) ==
    LET doc == getattr_safe_doc(module.obj)
    IN
    IF HasDocstring(t[1]) THEN Outcome("none", FALSE, t[1], FALSE)
    ELSE IF ~check_if_needed(needed_only, module.obj)
    THEN Outcome("none", FALSE, t[1], FALSE)
    ELSE IF ~Truthy(doc) THEN Outcome("none", FALSE, t[1], FALSE)
    ELSE IF doc.pytype # "str"
    THEN \* inspect.cleandoc(doc), line 502: doc.expandtabs() of a non-str
         Outcome("AttributeError", FALSE, t[1], FALSE)
    ELSE Outcome("none", FALSE,
                 [t[1] EXCEPT
                     !.doc = <<docquote_str(cleandoc(doc.text), << >>)>> \o @,
                     !.lead = IF t[1].body = "Statements" THEN @ + 1 ELSE @,
                     !.footer = IF t[1].body = "Statements" THEN @ ELSE @ + 1,
                     !.header = IF @ # 0 THEN @ + 1 ELSE @],
                 TRUE)

(***************************************************************************)
(* Stub files.                                                             *)
(***************************************************************************)
\* The text of a file: whether it is Python at all, and its tree.  A
\* documentation statement is kept as the characters of its literal.
Code(nodes) == [syntax |-> TRUE, nodes |-> nodes]

\* A stub that is not valid Python.
Malformed == [syntax |-> FALSE, nodes |-> << >>]

\* cst.parse_module, line 611, succeeds: the text is Python and every
\* string literal in it is a whole token.
Parses(content) ==
    /\ content.syntax
    /\ \A n \in Nodes(content.nodes) :
           \A i \in 1..Len(content.nodes[n].doc) :
               StringTokenOK(content.nodes[n].doc[i])

DefaultIndent == <<SP, SP>>

\* A docstring the stub already holds.
ExistingLiteral == <<DQ, DQ, DQ, "s", DQ, DQ, DQ>>

Module(body, header, doc) ==
    [Node("Module", 0, "", "", body, Some(DefaultIndent), doc, None)
        EXCEPT !.header = header]

\* A declaration whose body is form: "suite" (def f(): ...), "block", or
\* "documented" (a block that starts with a docstring).
Def(type, parent, name, form, indent) ==
    Node(type, parent, "body", name,
         IF form = "suite" THEN "SimpleStatementSuite" ELSE "IndentedBlock",
         indent,
         IF form = "documented" THEN <<ExistingLiteral>> ELSE << >>,
         None)

If(parent, slot, test) ==
    Node("If", parent, slot, "", "IndentedBlock", None, << >>, Some(test))

Else(parent) ==
    Node("Else", parent, "orelse", "", "IndentedBlock", None, << >>, None)

SysVersionInfo == Attribute(Name("sys"), "version_info")

SysPlatform == Attribute(Name("sys"), "platform")

VersionTest(op, ints) ==
    Comparison(SysVersionInfo,
        <<ComparisonTarget(op, Tuple([i \in 1..Len(ints) |-> Integer(ints[i])]))>>)

PlatformTest(op, chars) ==
    Comparison(SysPlatform, <<ComparisonTarget(op, SimpleString(chars))>>)

\* Tests that are true, false and unsupported under Python 3.
Tests == {VersionTest("GreaterThanEqual", <<3>>), VersionTest("LessThan", <<3>>),
          Name("TYPE_CHECKING")}

Forms == {"suite", "block", "documented"}

TopNames == {"f", "g", "h", "k", "e", "q", "w", "b", "p", "v", "C", "D", "E", "x"}

\* One declaration at module level.
FlatStubs ==
    {<<Module("Statements", 0, << >>), Def(ty, 1, nm, fm, None)>> :
        ty \in DefTypes, nm \in TopNames, fm \in Forms}

\* A class with one method.
ClassStubs ==
    {<<Module("Statements", 0, << >>),
       Def("ClassDef", 1, "C", cf, ci),
       Def("FunctionDef", 2, nm, fm, None)>> :
        cf \in {"block", "documented"}, ci \in {None, Some(<<TAB>>)},
        nm \in {"m", "__init__", "a", "x"}, fm \in {"suite", "documented"}}

\* if / elif / elif / else chains, a declaration in every branch.
ChainStubs ==
    {<<Module("Statements", 0, << >>),
       If(1, "body", t), Def("FunctionDef", 2, "f", "suite", None)>> :
        t \in Tests \cup {PlatformTest("Equal", "linux")}}
    \cup
    {<<Module("Statements", 0, << >>),
       If(1, "body", t), Def("FunctionDef", 2, "f", "suite", None),
       Else(2), Def("FunctionDef", 4, "f", "suite", None)>> :
        t \in Tests \cup {PlatformTest("Equal", "linux")}}
    \cup
    {<<Module("Statements", 0, << >>),
       If(1, "body", t1), Def("FunctionDef", 2, "f", "suite", None),
       If(2, "orelse", t2), Def("FunctionDef", 4, "f", "suite", None)>> :
        t1 \in Tests, t2 \in Tests}
    \cup
    {<<Module("Statements", 0, << >>),
       If(1, "body", t1), Def("FunctionDef", 2, "f", "suite", None),
       If(2, "orelse", t2), Def("FunctionDef", 4, "f", "suite", None),
       Else(4), Def("FunctionDef", 6, "f", "suite", None)>> :
        t1 \in Tests, t2 \in Tests}
    \cup
    {<<Module("Statements", 0, << >>),
       If(1, "body", t1), Def("FunctionDef", 2, "f", "suite", None),
       If(2, "orelse", t2), Def("FunctionDef", 4, "f", "suite", None),
       If(4, "orelse", t3), Def("FunctionDef", 6, "f", "suite", None),
       Else(6), Def("FunctionDef", 8, "f", "suite", None)>> :
        t1 \in Tests, t2 \in Tests, t3 \in Tests}

\* A conditional holding a class with a method and a nested conditional.
NestedStubs ==
    {<<Module("Statements", 0, << >>),
       If(1, "body", t1),
         Def("ClassDef", 2, "C", "block", None),
           Def("FunctionDef", 3, "m", "suite", None),
         If(2, "body", t2), Def("FunctionDef", 5, "f", "suite", None),
         Else(5), Def("FunctionDef", 7, "k", "block", None),
       Else(2), Def("FunctionDef", 9, "f", "block", None)>> :
        t1 \in Tests, t2 \in Tests}

\* Declarations inside a function.
FunctionScopeStubs ==
    {<<Module("Statements", 0, << >>),
       Def("FunctionDef", 1, "g", "suite", None),
       Def("FunctionDef", 1, "f", "block", None),
         Def("FunctionDef", 3, "g", "suite", None),
       Def("FunctionDef", 1, "f", "suite", None)>>,
     <<Module("Statements", 0, << >>),
       Def("FunctionDef", 1, "f", "block", None),
         Def("ClassDef", 2, "C", "block", None),
           Def("FunctionDef", 3, "m", "suite", None)>>}

\* Modules without declarations.
BareStubs ==
    {<<Module(b, h, d)>> :
        b \in {"Empty", "Statements"}, h \in {0, 1},
        d \in {<< >>, <<ExistingLiteral>>}}

Stubs ==
    {Code(t) : t \in FlatStubs \cup ClassStubs \cup ChainStubs \cup NestedStubs
                     \cup FunctionScopeStubs \cup BareStubs}
    \cup {Malformed}

LiveModules ==
    {Imported(PyText(<<"d">>), "none"), Imported(PyText(<<"d">>), "file"),
     Imported(PyNone, "none"), Imported(PyInt(7), "none"),
     Imported(PyInt(0), "none"),
     NotImported("ImportError"), NotImported("Exception")}

\* The stubs and modules of the runs over several files.
QueueStubs ==
    {Code(<<Module("Statements", 0, << >>),
            Def("FunctionDef", 1, "f", "suite", None)>>),
     Code(<<Module("Statements", 0, << >>),
            Def("FunctionDef", 1, "f", "block", None),
            Def("FunctionDef", 2, "g", "suite", None)>>),
     Code(<<Module("Statements", 0, << >>),
            If(1, "body", VersionTest("LessThan", <<3>>)),
            Def("ClassDef", 2, "C", "block", None),
            Else(2),
            Def("ClassDef", 4, "C", "block", None),
            Def("FunctionDef", 5, "m", "suite", None)>>),
     Malformed}

QueueModules ==
    {Imported(PyText(<<"d">>), "none"), Imported(PyInt(7), "none"),
     NotImported("ImportError")}

(***************************************************************************)
(* run(), src/docify.py:536.                                               *)
(***************************************************************************)
MaxFiles == 2

MaxRuns == 2

RECURSIVE LeaveSeqFrom(_, _)
LeaveSeqFrom(t, done) ==
    LET n == NextLeave(t, done)
    IN  IF n = 0 THEN << >> ELSE <<n>> \o LeaveSeqFrom(t, done \cup {n})

\* The declarations of the tree in the order the Transformer leaves them.
LeaveSeq(t) == LeaveSeqFrom(t, {})

\* The file the loop of line 597 is at.
File == queue[qi]

Running == exc = "none" /\ pc # "done"

\* The state run() starts in, over the files stubs with the modules mods.
RunInit(stubs, mods, inplace, needed) ==
    /\ queue = [i \in 1..Len(stubs) |-> i]
    /\ modules = mods
    /\ fs = stubs
    /\ tmp = [i \in 1..Len(stubs) |-> None]
    /\ out = [i \in 1..Len(stubs) |-> None]
    /\ in_place = inplace
    /\ if_needed = needed
    /\ run_no = 1
    /\ prev = [fs |-> stubs, out |-> [i \in 1..Len(stubs) |-> None],
               exc |-> "none"]
    /\ qi = 1
    /\ pc = "import"
    /\ exc = "none"
    /\ mod = None
    /\ tree = << >>
    /\ marks = {}
    /\ pos = 0
    /\ lookups = {}
    /\ raised_at = {}
    /\ inserted = {}

CondIdle ==
    /\ cnode = << >>
    /\ cmeta = << >>

\* No function is called on its own.
FnIdle ==
    /\ call = << >>
    /\ result = << >>

SysInit ==
    /\ version_info = <<3, 9, 1, "final", 0>>
    /\ platform = "linux"

\* Runs over a queue of up to MaxFiles files.
Init ==
    /\ SysInit
    /\ CondIdle
    /\ FnIdle
    /\ \E n \in 1..MaxFiles :
       \E stubs \in [1..n -> QueueStubs], mods \in [1..n -> QueueModules],
          inplace \in BOOLEAN :
           RunInit(stubs, mods, inplace, FALSE)

\* Runs over one file, of every shape.
InitOne ==
    /\ SysInit
    /\ CondIdle
    /\ FnIdle
    /\ \E stub \in Stubs, m \in LiveModules, inplace \in BOOLEAN,
          needed \in BOOLEAN :
           RunInit(<<stub>>, <<m>>, inplace, needed)

\* The loop of line 597 goes on to the next file, or ends.
NextFile ==
    /\ qi' = qi + 1
    /\ pc' = IF qi + 1 > Len(queue) THEN "done" ELSE "import"

\* run() raises.
Raise(e) ==
    /\ exc' = e
    /\ UNCHANGED <<qi, pc>>

\* Lines 598 to 605: the module is imported, or the file is skipped.
ImportModule ==
    /\ Running /\ pc = "import"
    /\ IF modules[File].import = "ok"
       THEN /\ mod' = Some(modules[File])
            /\ pc' = "read"
            /\ UNCHANGED qi
       ELSE /\ NextFile
            /\ UNCHANGED mod
    /\ UNCHANGED <<sysvars, condvars, fnvars, queue, modules, fs, tmp, out, in_place,
                   if_needed, run_no, prev, exc, tree, marks, pos, lookups,
                   raised_at, inserted>>

\* Lines 607 and 608: the stub is read; open or read may fail.
ReadStub ==
    /\ Running /\ pc = "read"
    /\ \E ok \in BOOLEAN :
          IF ok THEN pc' = "parse" /\ UNCHANGED <<qi, exc>>
          ELSE Raise("OSError")
    /\ UNCHANGED <<sysvars, condvars, fnvars, queue, modules, fs, tmp, out, in_place,
                   if_needed, run_no, prev, mod, tree, marks, pos, lookups,
                   raised_at, inserted>>

\* Lines 610 to 619: the stub is parsed, or the file is skipped.
ParseModule ==
    /\ Running /\ pc = "parse"
    /\ IF Parses(fs[File])
       THEN /\ tree' = fs[File].nodes
            /\ marks' = {}
            /\ lookups' = {}
            /\ raised_at' = {}
            /\ pos' = 1
            /\ pc' = IF NextIf(fs[File].nodes, 1) = 0 THEN "transform"
                     ELSE "metadata"
            /\ UNCHANGED qi
       ELSE /\ NextFile
            /\ UNCHANGED <<tree, marks, lookups, raised_at, pos>>
    /\ UNCHANGED <<sysvars, condvars, fnvars, queue, modules, fs, tmp, out, in_place,
                   if_needed, run_no, prev, exc, mod, inserted>>

\* wrapper.visit, line 621, resolving UnreachableProvider: visit_If on the
\* next If node.
VisitIf ==
    /\ Running /\ pc = "metadata"
    /\ LET n == NextIf(tree, pos)
       IN  /\ n # 0
           /\ marks' = visit_If(tree, marks, n, version_info, platform)
           /\ IF NextIf(tree, n + 1) = 0
              THEN pos' = 1 /\ pc' = "transform"
              ELSE pos' = n + 1 /\ pc' = "metadata"
    /\ UNCHANGED <<sysvars, condvars, fnvars, queue, modules, fs, tmp, out, in_place,
                   if_needed, run_no, prev, qi, exc, mod, tree, lookups,
                   raised_at, inserted>>

\* wrapper.visit, line 621: the Transformer leaves the declaration n.
LeaveDef(n) ==
    LET o == leave_ClassFunctionDef(tree, marks, mod[1], if_needed, n)
    IN  /\ lookups' = IF o.lookup THEN lookups \cup {n} ELSE lookups
        /\ IF o.raises # "none"
           THEN /\ Raise(o.raises)
                /\ raised_at' = raised_at \cup {n}
                /\ UNCHANGED <<tree, pos, inserted>>
           ELSE /\ tree' = [tree EXCEPT ![n] = o.node]
                /\ inserted' = IF o.inserted THEN inserted \cup {<<File, n>>}
                               ELSE inserted
                /\ pos' = pos + 1
                /\ UNCHANGED <<qi, pc, exc, raised_at>>
        /\ UNCHANGED <<sysvars, condvars, fnvars, queue, modules, fs, tmp, out,
                       in_place, if_needed, run_no, prev, mod, marks>>

\* Transformer.leave_ClassDef, line 472
LeaveClassDef ==
    /\ Running /\ pc = "transform" /\ pos <= Len(LeaveSeq(tree))
    /\ tree[LeaveSeq(tree)[pos]].type = "ClassDef"
    /\ LeaveDef(LeaveSeq(tree)[pos])

\* Transformer.leave_FunctionDef, line 475
LeaveFunctionDef ==
    /\ Running /\ pc = "transform" /\ pos <= Len(LeaveSeq(tree))
    /\ tree[LeaveSeq(tree)[pos]].type = "FunctionDef"
    /\ LeaveDef(LeaveSeq(tree)[pos])

\* Transformer.leave_Module, line 481, which ends wrapper.visit.
LeaveModule ==
    /\ Running /\ pc = "transform" /\ pos = Len(LeaveSeq(tree)) + 1
    /\ LET o == leave_Module(tree, mod[1], if_needed)
       IN  IF o.raises # "none"
           THEN /\ Raise(o.raises)
                /\ UNCHANGED <<tree, inserted>>
           ELSE /\ tree' = [tree EXCEPT ![1] = o.node]
                /\ inserted' = IF o.inserted THEN inserted \cup {<<File, 1>>}
                               ELSE inserted
                /\ pc' = IF in_place THEN "tempfile" ELSE "output"
                /\ UNCHANGED <<qi, exc>>
    /\ UNCHANGED <<sysvars, condvars, fnvars, queue, modules, fs, tmp, out, in_place,
                   if_needed, run_no, prev, mod, marks, pos, lookups,
                   raised_at>>

\* A file being written: the text, and whether all of it is there.
Written(code, complete) == [code |-> code, complete |-> complete]

\* Lines 626 to 632: NamedTemporaryFile creates the temporary file beside
\* the stub; when it fails there is none (f is None at line 635).
MakeTempFile ==
    /\ Running /\ pc = "tempfile"
    /\ \E ok \in BOOLEAN :
          IF ok
          THEN /\ tmp' = [tmp EXCEPT ![File] = Some(Written(Code(<< >>), FALSE))]
               /\ pc' = "write"
               /\ UNCHANGED <<qi, exc>>
          ELSE Raise("OSError") /\ UNCHANGED tmp
    /\ UNCHANGED <<sysvars, condvars, fnvars, queue, modules, fs, out, in_place,
                   if_needed, run_no, prev, mod, tree, marks, pos, lookups,
                   raised_at, inserted>>

\* Lines 633 to 637: the code is written and the file closed; when that
\* fails the temporary file is removed and the exception raised again.
WriteTemp ==
    /\ Running /\ pc = "write"
    /\ \E ok \in BOOLEAN :
          IF ok
          THEN /\ tmp' = [tmp EXCEPT ![File] = Some(Written(Code(tree), TRUE))]
               /\ pc' = "copystat"
               /\ UNCHANGED <<qi, exc>>
          ELSE /\ tmp' = [tmp EXCEPT ![File] = None]
               /\ Raise("OSError")
    /\ UNCHANGED <<sysvars, condvars, fnvars, queue, modules, fs, out, in_place,
                   if_needed, run_no, prev, mod, tree, marks, pos, lookups,
                   raised_at, inserted>>

\* Line 639: shutil.copystat
CopyStat ==
    /\ Running /\ pc = "copystat"
    /\ \E ok \in BOOLEAN :
          IF ok THEN pc' = "replace" /\ UNCHANGED <<qi, exc>>
          ELSE Raise("OSError")
    /\ UNCHANGED <<sysvars, condvars, fnvars, queue, modules, fs, tmp, out, in_place,
                   if_needed, run_no, prev, mod, tree, marks, pos, lookups,
                   raised_at, inserted>>

\* Line 640: os.replace renames the temporary file onto the stub.
Replace ==
    /\ Running /\ pc = "replace"
    /\ \E ok \in BOOLEAN :
          IF ok
          THEN /\ fs' = [fs EXCEPT ![File] = tmp[File][1].code]
               /\ tmp' = [tmp EXCEPT ![File] = None]
               /\ NextFile
               /\ UNCHANGED exc
          ELSE Raise("OSError") /\ UNCHANGED <<fs, tmp>>
    /\ UNCHANGED <<sysvars, condvars, fnvars, queue, modules, out, in_place,
                   if_needed, run_no, prev, mod, tree, marks, pos, lookups,
                   raised_at, inserted>>

\* Lines 642 to 647: the code is written to the output directory; a
\* failure before open leaves the output file as it was, one after it
\* leaves it cut short.
WriteOutput ==
    /\ Running /\ pc = "output"
    /\ \/ /\ out' = [out EXCEPT ![File] = Some(Written(Code(tree), TRUE))]
          /\ NextFile
          /\ UNCHANGED exc
       \/ /\ out' \in {out, [out EXCEPT ![File] = Some(Written(Code(<< >>), FALSE))]}
          /\ Raise("OSError")
    /\ UNCHANGED <<sysvars, condvars, fnvars, queue, modules, fs, tmp, in_place,
                   if_needed, run_no, prev, mod, tree, marks, pos, lookups,
                   raised_at, inserted>>

\* docify is started again on the same directories, once run() has ended.
Rerun ==
    /\ ~Running
    /\ run_no < MaxRuns
    /\ run_no' = run_no + 1
    /\ prev' = [fs |-> fs, out |-> out, exc |-> exc]
    /\ qi' = 1
    /\ pc' = "import"
    /\ exc' = "none"
    /\ inserted' = {}
    /\ UNCHANGED <<sysvars, condvars, fnvars, queue, modules, fs, tmp, out, in_place,
                   if_needed, mod, tree, marks, pos, lookups, raised_at>>

Next ==
    \/ ImportModule
    \/ ReadStub
    \/ ParseModule
    \/ VisitIf
    \/ LeaveClassDef
    \/ LeaveFunctionDef
    \/ LeaveModule
    \/ MakeTempFile
    \/ WriteTemp
    \/ CopyStat
    \/ Replace
    \/ WriteOutput
    \/ Rerun

Spec == Init /\ [][Next]_vars

SpecOne == InitOne /\ [][Next]_vars

(***************************************************************************)
(* ConditionProvider on its own: the visit of one test expression, the     *)
(* leave_ handlers running bottom-up, for every interpreter of Versions    *)
(* and Platforms.                                                          *)
(***************************************************************************)
MaxComponent == 9

Versions == {<<3, 9, 1, "final", 0>>, <<3, 9, 0, "final", 0>>,
             <<2, 7, 9, "final", 0>>}

Platforms == {"linux", "win32"}

VersionLiterals ==
    UNION {[1..k -> 0..MaxComponent] : k \in 1..3}

\* Comparisons with sys.version_info: the supported ones, and ones the
\* first matcher refuses (no element, four elements, an element that is
\* no integer literal, another operator, a chained comparison).
VersionExprs ==
    {VersionTest(op, lit) : op \in CompOps, lit \in VersionLiterals}
    \cup {VersionTest(op, lit) : op \in {"GreaterThanEqual", "Equal", "In"},
                                 lit \in {<< >>, <<3>>, <<3, 9, 1, 0>>}}
    \cup {Comparison(SysVersionInfo,
              <<ComparisonTarget("GreaterThanEqual",
                                 Tuple(<<Integer(3), Name("minor")>>))>>),
          Comparison(SysVersionInfo,
              <<ComparisonTarget("GreaterThanEqual", Tuple(<<Integer(3)>>)),
                ComparisonTarget("LessThan", Tuple(<<Integer(4)>>))>>),
          Comparison(Attribute(Name("sys"), "hexversion"),
              <<ComparisonTarget("GreaterThanEqual", Tuple(<<Integer(3)>>))>>)}

\* Comparisons with sys.platform, supported and not.
PlatformExprs ==
    {PlatformTest(op, chars) : op \in {"Equal", "NotEqual", "LessThan"},
                               chars \in {"linux", "win32", "darwin"}}
    \cup {Comparison(SysPlatform,
              <<ComparisonTarget("Equal", Name("PLATFORM"))>>)}

Operands ==
    {VersionTest("GreaterThanEqual", <<3>>), VersionTest("LessThan", <<3>>),
     PlatformTest("NotEqual", "win32"), Name("TYPE_CHECKING")}

UnaryExprs ==
    {UnaryOperation(op, e) : op \in {"Not", "Minus"}, e \in Operands}

BooleanExprs ==
    {BooleanOperation(l, op, r) :
        l \in Operands \cup UnaryExprs, op \in {"And", "Or"},
        r \in Operands \cup UnaryExprs}

TestExprs ==
    VersionExprs \cup PlatformExprs \cup Operands \cup UnaryExprs
    \cup BooleanExprs \cup {UnaryOperation("Not", e) : e \in BooleanExprs}

RECURSIVE PostOrder(_)
\* The expressions in the order their leave_ handlers run.
PostOrder(e) ==
    CASE e.type = "UnaryOperation" -> PostOrder(e.expression) \o <<e>>
      [] e.type = "BooleanOperation" ->
            PostOrder(e.left) \o PostOrder(e.right) \o <<e>>
      [] OTHER -> <<e>>

\* get_metadata(type(self), node, None)
get_metadata(m, node) == IF node \in DOMAIN m THEN Some(m[node]) ELSE None

\* set_metadata(node, value), when a value is set
set_metadata(m, node, value) ==
    IF value = None THEN m
    ELSE [x \in DOMAIN m \cup {node} |-> IF x = node THEN value[1] ELSE m[x]]

InitCond ==
    /\ version_info \in Versions
    /\ platform \in Platforms
    /\ \E e \in TestExprs : cnode = [root |-> e, todo |-> PostOrder(e)]
    /\ cmeta = << >>
    /\ FnIdle
    /\ RunInit(<<Malformed>>, <<NotImported("ImportError")>>, TRUE, FALSE)

CondStep(type, value) ==
    /\ cnode.todo # << >>
    /\ Head(cnode.todo).type = type
    /\ cmeta' = set_metadata(cmeta, Head(cnode.todo), value)
    /\ cnode' = [cnode EXCEPT !.todo = Tail(@)]
    /\ UNCHANGED <<sysvars, runvars, fnvars>>

OnLeaveComparison ==
    /\ cnode.todo # << >>
    /\ CondStep("Comparison",
                leave_Comparison(Head(cnode.todo), version_info, platform))

OnLeaveUnaryOperation ==
    /\ cnode.todo # << >>
    /\ CondStep("UnaryOperation",
                leave_UnaryOperation(Head(cnode.todo),
                    get_metadata(cmeta, Head(cnode.todo).expression)))

OnLeaveBooleanOperation ==
    /\ cnode.todo # << >>
    /\ CondStep("BooleanOperation",
                leave_BooleanOperation(Head(cnode.todo),
                    get_metadata(cmeta, Head(cnode.todo).left),
                    get_metadata(cmeta, Head(cnode.todo).right)))

\* A node ConditionProvider has no handler for.
OnLeaveOther ==
    /\ cnode.todo # << >>
    /\ CondStep("Name", None)

NextCond ==
    \/ OnLeaveComparison
    \/ OnLeaveUnaryOperation
    \/ OnLeaveBooleanOperation
    \/ OnLeaveOther

SpecCond == InitCond /\ [][NextCond]_vars

(***************************************************************************)
(* Properties of ConditionProvider (under SpecCond).                       *)
(***************************************************************************)
\* The sub-expressions the provider has left.
Visited ==
    {e \in Range(PostOrder(cnode.root)) : e \notin Range(cnode.todo)}

\* What the provider holds for an expression: None is unknown.
Meta(e) == get_metadata(cmeta, e)

InVersionFamily(e) == e.type = "Comparison" /\ MatchesVersionComparison(e)

InPlatformFamily(e) == e.type = "Comparison" /\ MatchesPlatformComparison(e)

\* C4: three-valued evaluation.  `not e` is e flipped when e is known and
\* unknown when e is unknown; `a and b`, `a or b` are the Boolean and / or
\* when both operands are known and unknown as soon as one operand is
\* unknown; an expression of neither comparison family, and no not / and /
\* or over them, is unknown.
C4_ThreeValued ==
    \A e \in Visited :
        /\ (e.type = "UnaryOperation" /\ e.operator = "Not") =>
               Meta(e) = IF Meta(e.expression) = None THEN None
                         ELSE Some(~Meta(e.expression)[1])
        /\ (e.type = "UnaryOperation" /\ e.operator # "Not") => Meta(e) = None
        /\ e.type = "BooleanOperation" =>
               IF Meta(e.left) = None \/ Meta(e.right) = None
               THEN Meta(e) = None
               ELSE Meta(e) = Some(IF e.operator = "And"
                                   THEN Meta(e.left)[1] /\ Meta(e.right)[1]
                                   ELSE Meta(e.left)[1] \/ Meta(e.right)[1])
        /\ (/\ e.type \notin {"UnaryOperation", "BooleanOperation"}
            /\ ~InVersionFamily(e) /\ ~InPlatformFamily(e)) => Meta(e) = None

\* `true or unknown` and `false and unknown` have been left, unknown.
C4_Witness ==
    /\ \E e \in Visited :
          /\ e.type = "BooleanOperation" /\ e.operator = "Or"
          /\ Meta(e.left) = Some(TRUE) /\ Meta(e.right) = None
          /\ Meta(e) = None
    /\ cnode.todo = << >>

\* A tuple of k components below MaxComponent + 1 as one number.
Key(t, k) ==
    LET B == MaxComponent + 1
    IN  CASE k = 1 -> t[1]
          [] k = 2 -> t[1] * B + t[2]
          [] k = 3 -> (t[1] * B + t[2]) * B + t[3]

NumCompare(op, a, b) ==
    CASE op = "GreaterThanEqual" -> a >= b
      [] op = "GreaterThan"      -> a > b
      [] op = "Equal"            -> a = b
      [] op = "NotEqual"         -> a # b
      [] op = "LessThan"         -> a < b
      [] op = "LessThanEqual"    -> a <= b

Arity(e) == Len(e.comparisons[1].comparator.elements)

LiteralKey(e) == Key(get_version(e.comparisons[1].comparator.elements), Arity(e))

VersionKey(e) == Key(version_info, Arity(e))

\* C5 as claimed: a version comparison is the comparison of the version
\* truncated to the literal's arity with the literal.
C5_TruncatedComparison ==
    \A e \in Visited :
        InVersionFamily(e) =>
            Meta(e) = Some(NumCompare(e.comparisons[1].operator,
                                      VersionKey(e), LiteralKey(e)))

\* C5, amended: a version comparison is the comparison of the whole
\* five-component version with the literal.  Where the version truncated
\* to the literal's arity differs from the literal, that is the truncated
\* comparison; where it equals the literal, the version is the longer and
\* so the greater tuple: >=, > and != are true, ==, <= and < are false.
C5_FullComparison ==
    \A e \in Visited :
        InVersionFamily(e) =>
            Meta(e) = Some(IF VersionKey(e) = LiteralKey(e)
                           THEN e.comparisons[1].operator \in
                                    {"GreaterThanEqual", "GreaterThan", "NotEqual"}
                           ELSE NumCompare(e.comparisons[1].operator,
                                           VersionKey(e), LiteralKey(e)))

\* sys.version_info == (3, 9) has been left under Python 3.9.1, false.
C5_Witness ==
    /\ version_info = <<3, 9, 1, "final", 0>>
    /\ \E e \in Visited :
          /\ InVersionFamily(e)
          /\ e.comparisons[1].operator = "Equal"
          /\ get_version(e.comparisons[1].comparator.elements) = <<3, 9>>
          /\ Meta(e) = Some(FALSE)

\* C6 as claimed: sys.platform == L is true exactly when the platform is
\* the string L denotes, and sys.platform != L is the opposite.
C6_PlatformComparison ==
    \A e \in Visited :
        InPlatformFamily(e) =>
            Meta(e) = Some(IF e.comparisons[1].operator = "Equal"
                           THEN platform = e.comparisons[1].comparator.text[2]
                           ELSE platform # e.comparisons[1].comparator.text[2])

(***************************************************************************)
(* Properties of UnreachableProvider and the Transformer (under SpecOne).  *)
(***************************************************************************)
RECURSIVE Up(_, _)
\* Node n and the compound statements around it.
Up(t, n) == IF n = 0 THEN {} ELSE {n} \cup Up(t, t[n].parent)

\* The nodes inside the body of the branch b, at any depth.
InBodyOf(t, b) ==
    {d \in Nodes(t) :
        \E c \in Up(t, d) : t[c].parent = b /\ t[c].slot = "body"}

RECURSIVE IsLaterBranch(_, _, _)
\* b is an elif or the else that follows the If n in n's chain.
IsLaterBranch(t, b, n) ==
    /\ t[b].slot = "orelse"
    /\ \/ t[b].parent = n
       \/ IsLaterBranch(t, t[b].parent, n)

LaterInChain(t, n) == {b \in Nodes(t) : IsLaterBranch(t, b, n)}

\* What ConditionProvider holds for the test of the If n.
TestOf(n) == ConditionMetadata(tree[n].test[1], version_info, platform)

\* Every declaration of the tree has been left.
AllLeft == pc = "transform" /\ pos = Len(LeaveSeq(tree)) + 1

\* C2: a declaration anywhere inside the body of a branch marked
\* unreachable is never looked up in the imported module.
C2_DeadNeverLookedUp ==
    \A d \in Nodes(tree) :
        (/\ tree[d].type \in DefTypes
         /\ \E b \in marks : /\ tree[b].type \in {"If", "Else"}
                             /\ d \in InBodyOf(tree, b))
        => d \notin lookups

\* All declarations have been left; a dead branch holds a method of a class
\* and a declaration under a nested conditional, none of them looked up,
\* while a declaration of the live branch was.
C2_Witness ==
    /\ AllLeft
    /\ lookups # {}
    /\ \E b \in marks :
          /\ tree[b].type = "If"
          /\ lookups \cap InBodyOf(tree, b) = {}
          /\ \E d1, d2 \in InBodyOf(tree, b) :
                /\ tree[d1].type = "FunctionDef"
                /\ tree[tree[d1].parent].type = "ClassDef"
                /\ tree[d2].type = "FunctionDef"
                /\ tree[d2].parent # b
                /\ tree[tree[d2].parent].type \in {"If", "Else"}

\* C3: the visit of a conditional whose test is false marks the nodes of
\* its own body (and the conditional node itself) and nothing of the later
\* branches; of one whose test is true, every later elif and the else of
\* its chain with everything in their bodies, and nothing else; of one
\* whose test is unknown, nothing; and the visit of a conditional that is
\* marked already (a later elif of a true test among them) marks nothing.
C3_ChainPropagation ==
    [][pc = "metadata" =>
        LET n   == NextIf(tree, pos)
            new == marks' \ marks
        IN  /\ n \in marks => new = {}
            /\ (n \notin marks /\ TestOf(n) = None) => new = {}
            /\ (n \notin marks /\ TestOf(n) = Some(FALSE)) =>
                   new \ {n} = InBodyOf(tree, n)
            /\ (n \notin marks /\ TestOf(n) = Some(TRUE)) =>
                   new = UNION {{b} \cup InBodyOf(tree, b) :
                                   b \in LaterInChain(tree, n)}]_vars

\* A chain has been visited whose first test is false and whose second is
\* true, with a further elif and an else: the first body is marked, the
\* second is not, the later branches are.
C3_Witness ==
    /\ pc = "transform"
    /\ \E a, b \in Nodes(tree) :
          /\ tree[a].type = "If" /\ tree[b].type = "If"
          /\ tree[b].parent = a /\ tree[b].slot = "orelse"
          /\ TestOf(a) = Some(FALSE) /\ TestOf(b) = Some(TRUE)
          /\ InBodyOf(tree, a) # {} /\ InBodyOf(tree, a) \subseteq marks
          /\ b \notin marks /\ InBodyOf(tree, b) \cap marks = {}
          /\ \E c \in LaterInChain(tree, b) : tree[c].type = "If"
          /\ \E c \in LaterInChain(tree, b) : tree[c].type = "Else"
          /\ \A c \in LaterInChain(tree, b) :
                c \in marks /\ InBodyOf(tree, c) \subseteq marks

\* C1: a run that follows a run without I/O failure changes no stub;
\* writing to the output directory it leaves every output file as the run
\* before left it, unless a write fails; and in place, after a run that
\* ended without raising, it gives no declaration and no module a
\* docstring.
C1_Idempotent ==
    (run_no > 1 /\ prev.exc # "OSError") =>
        /\ fs = prev.fs
        /\ exc # "OSError" => out = prev.out
        /\ (in_place /\ prev.exc = "none") => inserted = {}

\* A second run in place has ended over a stub that the first run gave a
\* module docstring and a declaration's docstring.
C1_Witness ==
    /\ run_no = 2 /\ pc = "done" /\ exc = "none" /\ prev.exc = "none"
    /\ in_place
    /\ Parses(fs[1])
    /\ fs[1].nodes[1].doc # << >>
    /\ \E n \in Defs(fs[1].nodes) :
          /\ fs[1].nodes[n].doc # << >>
          /\ fs[1].nodes[n].doc[1] # ExistingLiteral

\* C8 as claimed: a declaration whose scope or qualified name cannot be
\* resolved is skipped and the run goes on; resolution never raises out
\* of run().
C8_ResolutionMissIsPerDeclaration ==
    \A n \in Defs(tree) :
        get_qualname(tree, n).raises # "none" =>
            (n \notin raised_at /\ exc \notin {"TypeError", "ValueError"})

\* C9 as claimed: documentation that is present but not text is treated
\* as absent, for a module as for a class or function; once the module
\* has been left with such a value, run() has not raised.
C9_TypeMismatchIsAbsent ==
    (/\ mod # None
     /\ tree # << >>
     /\ AllLeft
     /\ mod[1].obj.doc.pytype \notin {"NoneType", "str"})
    => exc = "none"

(***************************************************************************)
(* Properties of run() (under Spec).                                       *)
(***************************************************************************)
CommitSteps == {"tempfile", "write", "copystat", "replace"}

\* C7 as claimed: a failure to write or rename one file leaves the files
\* queued after it to be processed; run() does not end on it while files
\* remain.
C7_PerFileIsolation ==
    (exc = "OSError" /\ pc \in CommitSteps \cup {"output"}) =>
        qi = Len(queue)

\* C10 as claimed: when the commit of a file fails in place, the stub holds
\* what it held before and no temporary file is left.
C10_CommitAllOrNothing ==
    (in_place /\ exc = "OSError" /\ pc \in CommitSteps) =>
        /\ fs[File] = prev.fs[File]
        /\ tmp[File] = None

(***************************************************************************)
(* The functions of src/docify.py called on their own, on every input of   *)
(* a bounded set.                                                          *)
(***************************************************************************)
\* The calls of get_doc_def: an owner (a module, a class, object itself),
\* an object with every answer to isroutine, isdatadescriptor and isclass,
\* every text, raw entry and type's __doc__ entry, and a member name.
GetDocDefCalls ==
    LET DocTexts == {PyNone, PyText(<< >>), PyText(<<"a">>), ObjectInitDoc,
                     ObjectNewDoc}
        RawEntries ==
            {None} \cup {Some(RawEntry(dd, d)) :
                            dd \in BOOLEAN,
                            d \in {PyNone, PyText(<< >>), PyText(<<"p">>)}}
        LiveObjects ==
            {Obj(r, dd, c, d, raw, td, "none") :
                r \in BOOLEAN, dd \in BOOLEAN, c \in BOOLEAN, d \in DocTexts,
                raw \in RawEntries, td \in {"None", "datadesc", "str"}}
        Owners == {ModuleObj(PyNone, "none"), Class(PyNone),
                   [Class(PyNone) EXCEPT !.isobject = TRUE]}
    IN  {[fn |-> "get_doc_def", scope_obj |-> so, obj |-> o, name |-> nm] :
            so \in Owners, o \in LiveObjects,
            nm \in {"__init__", "__new__", "m"}}

MaxText == 4

\* The calls of docquote_str: every text of up to MaxText characters out
\* of a letter, the double quote, the backslash and the newline, with an
\* indent.
DocquoteStrCalls ==
    LET Texts == UNION {[1..n -> {"a", DQ, BS, NL}] : n \in 0..MaxText}
    IN  {[fn |-> "docquote_str", doc |-> d, indent |-> ind] :
            d \in Texts, ind \in {<< >>, <<SP>>}}

\* The calls of lines 442 to 454, the indent of a declaration's docstring:
\* a method of a class, under a conditional or not, every block with the
\* module's indentation or one of its own, and a text of one or two lines.
DocIndentCalls ==
    LET Indents == {None, Some(<<TAB>>), Some(<<SP>>)}
        Method(parent, form, indent) ==
            Def("FunctionDef", parent, "m", form,
                IF form = "suite" THEN None ELSE indent)
        Trees ==
            {<<Module("Statements", 0, << >>),
               Def("ClassDef", 1, "C", "block", ci),
               Method(2, fm, mi)>> :
                ci \in Indents, mi \in Indents, fm \in {"suite", "block"}}
            \cup
            {<<Module("Statements", 0, << >>),
               [If(1, "body", Name("TYPE_CHECKING")) EXCEPT !.indent = ii],
               Def("ClassDef", 2, "C", "block", ci),
               Method(3, fm, mi),
               [Else(2) EXCEPT !.indent = ei],
               Method(5, fm, mi)>> :
                ii \in Indents, ei \in Indents, ci \in Indents,
                mi \in Indents, fm \in {"suite", "block"}}
    IN  {[fn |-> "indent", tree |-> t, node |-> n, doc |-> d] :
            t \in Trees, n \in {3, 4, 6},
            d \in {<<"a">>, <<"a", NL, "b">>}}

InitFn ==
    /\ SysInit
    /\ CondIdle
    /\ RunInit(<<Malformed>>, <<NotImported("ImportError")>>, TRUE, FALSE)
    /\ \E c \in GetDocDefCalls \cup DocquoteStrCalls \cup DocIndentCalls :
           /\ call = Some(c)
           /\ c.fn = "indent" =>
                  (c.node <= Len(c.tree) /\ c.tree[c.node].type = "FunctionDef")
    /\ result = None

\* The function fn is called and returns value.
Return(fn, value) ==
    /\ call # None /\ call[1].fn = fn
    /\ result = None
    /\ result' = Some(value)
    /\ UNCHANGED <<sysvars, condvars, runvars, call>>

CallGetDocDef ==
    /\ call # None /\ call[1].fn = "get_doc_def"
    /\ Return("get_doc_def",
              get_doc_def(call[1].scope_obj, call[1].obj, call[1].name))

CallDocquoteStr ==
    /\ call # None /\ call[1].fn = "docquote_str"
    /\ Return("docquote_str", docquote_str(call[1].doc, call[1].indent))

\* Lines 442 to 454 of leave_ClassFunctionDef.
CallDocIndent ==
    /\ call # None /\ call[1].fn = "indent"
    /\ Return("indent", DocIndent(call[1].tree, call[1].node, call[1].doc))

NextFn ==
    \/ CallGetDocDef
    \/ CallDocquoteStr
    \/ CallDocIndent

SpecFn == InitFn /\ [][NextFn]_vars

(***************************************************************************)
(* Properties of the functions (under SpecFn).                             *)
(***************************************************************************)
\* fn has been called and has returned.
Returned(fn) == call # None /\ call[1].fn = fn /\ result # None

NonEmptyText(d) == d.pytype = "str" /\ d.text # << >>

\* The text object has for the hook name: object.__init__.__doc__ for
\* __init__, object.__new__.__doc__ for __new__.
HookText(name) ==
    IF name = "__init__" THEN Some(ObjectInitDoc)
    ELSE IF name = "__new__" THEN Some(ObjectNewDoc)
    ELSE None

\* C11: the documentation selected for a function declaration is (a) for a
\* routine or data descriptor its own text, absent when the owner is a
\* class other than object, the name is __init__ or __new__ and the text
\* is object's text for that hook; (b) otherwise the text of the owner's
\* raw entry for the name when that entry is a data descriptor with
\* non-empty text; (c) otherwise, for a symbol that is not a class and
\* whose type's own __doc__ entry is absent or a data descriptor, the
\* symbol's own text when non-empty; (d) otherwise absent.
C11_SelectionPriority ==
    Returned("get_doc_def") =>
        LET o     == call[1].obj
            owner == call[1].scope_obj
            hook  == HookText(call[1].name)
            inherited == /\ owner.class /\ ~owner.isobject
                         /\ hook # None /\ o.doc = hook[1]
            descriptor == /\ o.raw # None /\ o.raw[1].datadesc
                          /\ NonEmptyText(o.raw[1].doc)
            instance == /\ ~o.class /\ o.typedoc \in {"None", "datadesc"}
                        /\ NonEmptyText(o.doc)
        IN  result[1] =
                IF o.routine \/ o.datadesc
                THEN (IF inherited THEN PyNone ELSE o.doc)
                ELSE IF descriptor THEN o.raw[1].doc
                ELSE IF instance THEN o.doc
                ELSE PyNone

\* get_doc_def has returned the text of a property found in the owner's
\* namespace, for a symbol that is no routine and whose own text is
\* another and would have been taken otherwise.
C11_Witness ==
    /\ Returned("get_doc_def")
    /\ ~call[1].obj.routine /\ ~call[1].obj.datadesc /\ ~call[1].obj.class
    /\ call[1].obj.typedoc = "None"
    /\ call[1].obj.doc = PyText(<<"a">>)
    /\ call[1].obj.raw = Some(RawEntry(TRUE, PyText(<<"p">>)))
    /\ result[1] = PyText(<<"p">>)

\* C12 as claimed: the literal docquote_str returns for a printable text
\* has intact boundaries.  Read from behind the opening triple quote, a
\* backslash taking the character after it along (in a raw literal too),
\* the first closing triple quote is the last three characters of the
\* literal.
C12_LiteralBoundaries ==
    (Returned("docquote_str") /\ IsPrintable(call[1].doc)) =>
        LET lit   == result[1]
            body  == IF lit[1] = "r" THEN Tail(lit) ELSE lit
            close == CloseAt(body, 4, <<DQ, DQ, DQ>>)
        IN  /\ Take(body, 3) = <<DQ, DQ, DQ>>
            /\ close # 0
            /\ close + 2 = Len(body)

RECURSIVE IndentAround(_, _)
\* The indentation of the blocks around the statement n, outer to inner;
\* the module's is empty, and an elif or else stands where its if does.
IndentAround(t, n) ==
    LET p == t[n].parent
    IN  IF p = 0 \/ t[p].type = "Module" THEN << >>
        ELSE IF t[n].slot = "body" THEN IndentAround(t, p) \o BlockIndent(t, p)
        ELSE IndentAround(t, p)

\* C13 as claimed: the indent handed to docquote_str for a declaration with
\* a text of several lines is the indentation of every block around the
\* documentation statement, outer to inner.
C13_IndentOuterToInner ==
    (Returned("indent") /\ Contains(call[1].doc, NL)) =>
        result[1] = IndentAround(call[1].tree, call[1].node)
                        \o BlockIndent(call[1].tree, call[1].node)

====
